---------------------------- MODULE QemuStorage ----------------------------
(***************************************************************************)
(* The storage of QEMU machines: what sys_storage_create, sys_storage_check *)
(* and sys_storage_resize of a QemuMachineConfiguration do to the files in *)
(* a machine's data directory, beside the machine that has them open.      *)
(*                                                                         *)
(* QemuManager::allocate takes &self: several tasks may be in one at the   *)
(* same time, each with a configuration of its own, and a machine that an  *)
(* earlier manager started may run.  A machine is only started with &mut   *)
(* self, when none is.  qemu-img is a program of its own: it truncates the *)
(* file, works on it, and may fail half way; run_system_command is content *)
(* with any exit status.                                                   *)
(*                                                                         *)
(* A name is the sequence of its parts between dots.  The default, empty   *)
(* configuration stands for Storageless too, which does nothing.           *)
(***************************************************************************)
EXTENDS Naturals, Sequences

CONSTANTS
    Dirs,     \* the data directories
    Confs,    \* the configurations asked for, sequences of entries
    Clean,    \* sanitize_storage_name, part by part
    Callers   \* the tasks that work on storage

Kinds == {"qcow2", "raw", "block", "iso", "cloud", "isocloud"}
Names == Seq(DOMAIN Clean)
Range(conf) == {conf[i] : i \in DOMAIN conf}
Entries == UNION {Range(conf) : conf \in Confs}

CleanName(name) == [i \in DOMAIN name |-> Clean[name[i]]]

\* disk_stem, iso_dest_path and cloud_image_stem: the id, or else the file's
\* name, of which only a cloud image drops the extension.
Stem(e) ==
    IF e.id # <<>> THEN CleanName(e.id)
    ELSE IF e.path = <<>>
         THEN [qcow2 |-> <<"disk">>, raw |-> <<"disk">>, iso |-> <<"media", "iso">>,
               cloud |-> <<"cloud-image">>][e.kind]
    ELSE IF e.kind = "cloud" /\ Len(e.path) > 1
         THEN CleanName(SubSeq(e.path, 1, Len(e.path) - 1))
    ELSE CleanName(e.path)

Form(e) == IF e.kind = "cloud" THEN "qcow2" ELSE e.kind

\* qemu_disk_path, iso_dest_path and cloud_image_overlay_path.
Dest(e) ==
    IF e.kind = "iso" THEN Stem(e)
    ELSE Append(Stem(e), IF e.kind = "raw" THEN "img" ELSE "qcow2")

DiskKinds == {"qcow2", "raw", "cloud"}
FileKinds == DiskKinds \cup {"iso"}
IsDisk(e)  == e.kind \in DiskKinds
HasFile(e) == e.kind \in FileKinds
Files == {Dest(e) : e \in {x \in Entries : HasFile(x)}}

ASSUME StorageAssumption ==
    /\ Dirs # {}
    /\ Confs \subseteq Seq([kind : Kinds, id : Names, path : Names])

VARIABLES
    state,     \* "none", "part" written, or "whole", for each directory and file
    form,      \* the format it was written in
    data,      \* it holds what a guest has written
    open,      \* the disks a running machine has open in a directory
    job,       \* where each caller is
    allocated, \* history: the files of the drives a create returned Ok for
    checked,   \* history: the files of the plain disks a check returned Ok for
    blame      \* history: files that a qemu-img or a copy failed on, or a crash cut off

fileVars == <<state, form, data>>
histVars == <<allocated, checked>>
storageVars == <<fileVars, open, job, histVars, blame>>

Idle == [at |-> "idle", op |-> "create", dir |-> CHOOSE d \in Dirs : TRUE,
         conf |-> <<>>, id |-> <<>>, i |-> 1, err |-> FALSE]

StorageInit ==
    /\ state = [d \in Dirs |-> [f \in Files |-> "none"]]
    /\ form = [d \in Dirs |-> [f \in Files |-> "none"]]
    /\ data = [d \in Dirs |-> [f \in Files |-> FALSE]]
    /\ open = [d \in Dirs |-> {}]
    /\ job = [c \in Callers |-> Idle]
    /\ allocated = [d \in Dirs |-> {}] /\ checked = [d \in Dirs |-> {}]
    /\ blame = [d \in Dirs |-> {}]

Entry(c) == job[c].conf[job[c].i]
File(c)  == Dest(Entry(c))
At(c, l, d, f) == job[c].at \in l /\ job[c].dir = d /\ File(c) = f
AtWork(d, f) == \E c \in Callers : At(c, {"making", "copying"}, d, f)

----------------------------------------------------------------------------
(* The loop over the entries                                               *)

\* id is the entry a resize asks for.
Begin(c, op, d, conf, id) ==
    /\ job[c].at = "idle"
    /\ job' = [job EXCEPT ![c] =
                  [at |-> IF conf = <<>> THEN "done" ELSE "entry", op |-> op, dir |-> d,
                   conf |-> conf, id |-> id, i |-> 1, err |-> FALSE]]
    /\ UNCHANGED <<fileVars, open, histVars, blame>>

AdvanceForgets(c, bad) ==
    job' = [job EXCEPT ![c].i = @ + 1, ![c].err = bad,
                       ![c].at = IF job[c].i = Len(job[c].conf) THEN "done" ELSE "entry"]
AdvanceTooFar(c, bad) ==
    job' = [job EXCEPT ![c].i = @ + 1, ![c].err = @ \/ bad,
                       ![c].at = IF job[c].i > Len(job[c].conf) THEN "done" ELSE "entry"]

\* The error of an entry is kept, and the loop goes on.
Advance(c, bad) ==
    job' = [job EXCEPT ![c].i = @ + 1, ![c].err = @ \/ bad,
                       ![c].at = IF job[c].i = Len(job[c].conf) THEN "done" ELSE "entry"]

Goto(c, l) == job' = [job EXCEPT ![c].at = l]

End(c) ==
    /\ job[c].at = "done"
    /\ job' = [job EXCEPT ![c] = Idle]
    /\ LET Ok(op, kinds) ==
             IF job[c].op = op /\ ~job[c].err
             THEN {Dest(e) : e \in {x \in Range(job[c].conf) : x.kind \in kinds}} ELSE {}
       IN /\ allocated' = [allocated EXCEPT ![job[c].dir] = @ \cup Ok("create", FileKinds)]
          /\ checked' = [checked EXCEPT ![job[c].dir] = @ \cup Ok("check", {"qcow2", "raw"})]
    /\ UNCHANGED <<fileVars, open, blame>>

\* A host block device is looked at, and whatever cannot be done is an error:
\* an ISO as a writable disk, a source or a directory that is not there.
NoFile(c) ==
    /\ job[c].at = "entry" /\ job[c].op = "create"
    /\ \E bad \in BOOLEAN : (Entry(c).kind # "block" => bad) /\ Advance(c, bad)
    /\ UNCHANGED <<fileVars, open, histVars, blame>>

\* info, check, open and close: a disk is inspected by its path, a cloud image
\* by its overlay or else its base image, and of an ISO only the source.
Check(c) ==
    /\ job[c].at = "entry" /\ job[c].op = "check"
    /\ \E bad \in BOOLEAN :
         /\ Entry(c).kind = "isocloud" => bad
         /\ Entry(c).kind \in {"qcow2", "raw"} /\ state[job[c].dir][File(c)] = "none" => bad
         /\ Advance(c, bad)
    /\ UNCHANGED <<fileVars, open, histVars, blame>>

----------------------------------------------------------------------------
(* sys_storage_create                                                      *)

LookBlind(c) ==
    /\ job[c].at = "entry" /\ job[c].op = "create" /\ IsDisk(Entry(c))
    /\ Goto(c, "make")
    /\ UNCHANGED <<fileVars, open, histVars, blame>>

\* A disk that is there is kept.
Look(c) ==
    /\ job[c].at = "entry" /\ job[c].op = "create" /\ IsDisk(Entry(c))
    /\ Goto(c, IF state[job[c].dir][File(c)] = "none" THEN "make" ELSE "inspect")
    /\ UNCHANGED <<fileVars, open, histVars, blame>>

\* is_qcow_image_corrupt: what it prints is parsed, and without a file it
\* prints nothing.  It looks at neither the format nor at who made the file.
Inspect(c) ==
    /\ job[c].at = "inspect"
    /\ \E bad \in BOOLEAN :
         /\ state[job[c].dir][File(c)] = "none" => bad
         /\ Advance(c, bad)
    /\ UNCHANGED <<fileVars, open, histVars, blame>>

\* qemu-img create and the copy of an ISO begin by emptying the file.
Write(c, l) ==
    LET d == job[c].dir  f == File(c) IN
    /\ Goto(c, l)
    /\ state' = [state EXCEPT ![d][f] = "part"]
    /\ form' = [form EXCEPT ![d][f] = Form(Entry(c))]
    /\ data' = [data EXCEPT ![d][f] = FALSE]
    /\ UNCHANGED <<open, histVars, blame>>

Make(c) == job[c].at = "make" /\ Write(c, "making")
Copy(c) ==
    /\ job[c].at = "entry" /\ job[c].op = "create" /\ Entry(c).kind = "iso"
    /\ Write(c, "copying")

Written(c) ==
    /\ job[c].at \in {"making", "copying"}
    /\ state' = [state EXCEPT ![job[c].dir][File(c)] = "whole"]
    /\ form' = [form EXCEPT ![job[c].dir][File(c)] = Form(Entry(c))]
    /\ Advance(c, FALSE)
    /\ UNCHANGED <<data, open, histVars, blame>>

\* history: the file may be spoilt.
Blame(c) == blame' = [blame EXCEPT ![job[c].dir] = @ \cup {File(c)}]

CopyError(c) ==
    /\ job[c].at = "copying"
    /\ Advance(c, TRUE) /\ Blame(c)
    /\ UNCHANGED <<fileVars, open, histVars>>

\* qemu-img fails, before or after it has emptied the file: to qemu_img_create
\* that is Ok.
SilentError(c) ==
    /\ \/ job[c].at = "make" /\ UNCHANGED state
       \/ /\ job[c].at = "making"
          /\ \E s \in {"none", "part"} : state' = [state EXCEPT ![job[c].dir][File(c)] = s]
    /\ Advance(c, FALSE) /\ Blame(c)
    /\ UNCHANGED <<form, data, open, histVars>>

\* qemu-img cannot be run.
SpawnError(c) ==
    /\ job[c].at \in {"make", "inspect"}
    /\ Advance(c, TRUE)
    /\ UNCHANGED <<fileVars, open, histVars, blame>>

----------------------------------------------------------------------------
(* sys_storage_resize, the machines, and a crash                           *)

\* A request names the entry by its id; to shrink the disk may cut off what a
\* guest wrote.  qemu-img refuses a disk that is open, which is Ok too.
Resize(c) ==
    /\ job[c].at = "entry" /\ job[c].op = "resize"
    /\ LET d == job[c].dir  f == File(c) IN
       \/ UNCHANGED data
       \/ /\ IsDisk(Entry(c)) /\ Entry(c).id = job[c].id /\ f \notin open[d]
          /\ data' = [data EXCEPT ![d][f] = FALSE]
    /\ Advance(c, Entry(c).id = job[c].id /\ ~IsDisk(Entry(c)))
    /\ UNCHANGED <<state, form, open, histVars, blame>>

Usable(d, e) ==
    HasFile(e) => state[d][Dest(e)] = "whole" /\ (IsDisk(e) => form[d][Dest(e)] = Form(e))

\* QEMU opens every drive of the configuration, no disk twice.
GuestStarts(d, conf) ==
    /\ \A c \in Callers : job[c].op = "create" => job[c].at = "idle"
    /\ open[d] = {}
    /\ \A i \in DOMAIN conf :
         /\ conf[i].kind # "isocloud" /\ Usable(d, conf[i])
         /\ \A j \in DOMAIN conf : i # j /\ IsDisk(conf[i]) /\ HasFile(conf[j])
                                     => Dest(conf[i]) # Dest(conf[j])
    /\ open' = [open EXCEPT ![d] = {Dest(conf[i]) : i \in {j \in DOMAIN conf : IsDisk(conf[j])}}]
    /\ UNCHANGED <<fileVars, job, histVars, blame>>

GuestWrites(d, f) ==
    /\ f \in open[d]
    /\ data' = [data EXCEPT ![d][f] = TRUE]
    /\ UNCHANGED <<state, form, open, job, histVars, blame>>

GuestStops(d) ==
    /\ open' = [open EXCEPT ![d] = {}]
    /\ UNCHANGED <<fileVars, job, histVars, blame>>

\* What a crash cuts off stays as it is; a qemu-img may still finish.
StorageCrash ==
    /\ job' = [c \in Callers |-> Idle]
    /\ \E done \in SUBSET {f \in Files : \E c \in Callers : job[c].at = "making" /\ File(c) = f} :
         state' = [d \in Dirs |-> [f \in Files |->
                      IF f \in done /\ \E c \in Callers : At(c, {"making"}, d, f)
                      THEN "whole" ELSE state[d][f]]]
    /\ blame' = [d \in Dirs |-> blame[d] \cup {f \in Files : AtWork(d, f)}]
    /\ UNCHANGED <<form, data, open, histVars>>

Work(c) ==
    \/ NoFile(c) \/ Check(c) \/ Look(c) \/ Inspect(c) \/ Make(c) \/ Copy(c)
    \/ Written(c) \/ CopyError(c) \/ SilentError(c) \/ SpawnError(c) \/ Resize(c)

StorageNext ==
    \/ \E c \in Callers :
         \/ \E d \in Dirs, conf \in Confs :
              \/ \E op \in {"create", "check"} : Begin(c, op, d, conf, <<>>)
              \/ \E e \in Entries : Begin(c, "resize", d, conf, e.id)
         \/ Work(c) \/ End(c)
    \/ \E d \in Dirs, conf \in Confs : GuestStarts(d, conf)
    \/ \E d \in Dirs : GuestStops(d) \/ \E f \in Files : GuestWrites(d, f)
    \/ StorageCrash

StorageSpec == StorageInit /\ [][StorageNext]_storageVars

----------------------------------------------------------------------------
(* Properties                                                              *)

Jobs == [at : {"idle", "entry", "make", "making", "inspect", "copying", "done"},
         op : {"create", "check", "resize"}, dir : Dirs, conf : Confs \cup {<<>>},
         id : Names, i : Nat, err : BOOLEAN]

\* The type of every variable, and where a caller is in its configuration.
StorageTypeOK ==
    /\ state \in [Dirs -> [Files -> {"none", "part", "whole"}]]
    /\ form \in [Dirs -> [Files -> {"none", "qcow2", "raw", "iso"}]]
    /\ data \in [Dirs -> [Files -> BOOLEAN]]
    /\ open \in [Dirs -> SUBSET Files]
    /\ job \in [Callers -> Jobs]
    /\ \A c \in Callers :
         /\ job[c].at \notin {"idle", "done"} => job[c].i \in DOMAIN job[c].conf
         /\ job[c].at \in {"make", "making", "inspect"} => IsDisk(Entry(c))
         /\ job[c].at = "copying" => Entry(c).kind = "iso"
         /\ job[c].at \in {"make", "making", "inspect", "copying"} => job[c].op = "create"
    /\ {allocated, checked, blame} \subseteq [Dirs -> SUBSET Files]

\* Two entries have names for files of two formats that come out the same.
Clash(f) == \E e, x \in Entries : /\ HasFile(e) /\ HasFile(x) /\ Form(e) # Form(x)
                                  /\ Dest(e) = f /\ Dest(x) = f

\* When a create has returned Ok each of its drives can be opened, and when a
\* check has, its plain disks are there, once nobody is at work on the file;
\* unless a qemu-img failed unnoticed, a copy failed, a crash cut one off, or
\* the names of two drives clash.
PromisesKept ==
    \A d \in Dirs : \A e \in Entries :
      HasFile(e) /\ ~AtWork(d, Dest(e)) /\ Dest(e) \notin blame[d] /\ ~Clash(Dest(e)) =>
        /\ Dest(e) \in allocated[d] => Usable(d, e)
        /\ Dest(e) \in checked[d] => state[d][Dest(e)] # "none"

\* What a guest has written is lost only to an ISO of the same name, or to a
\* resize that asks for the id of a disk with this file: allocate may be called
\* again, by several at once, after a crash and while the machine runs.
GuestDataKept ==
    [][\A d \in Dirs : \A f \in Files :
         data[d][f] /\ ~data'[d][f] =>
           \E e \in Entries :
             /\ HasFile(e) /\ Dest(e) = f
             /\ \/ e.kind = "iso"
                \/ \E c \in Callers : job[c].op = "resize" /\ job[c].id = e.id]_storageVars

=============================================================================
