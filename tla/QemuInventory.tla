--------------------------- MODULE QemuInventory ---------------------------
(***************************************************************************)
(* What a QemuManager knows of all its machines and what of it survives:   *)
(* the entries of vms, the records in the metadata, the runtime            *)
(* directories, and the QEMU processes, which outlive the manager.         *)
(*                                                                         *)
(* Here a call is one step, and a machine is what it was asked to be; how  *)
(* the calls on one machine interleave with its QEMU is in QemuManager.    *)
(* Directories and records are named by ids: a directory by the printed    *)
(* id, which discovery parses again, a record by the id itself.  Any       *)
(* string is an id, and one like "a/b" leads to a directory elsewhere.     *)
(***************************************************************************)
CONSTANTS
    Ids,       \* the ids callers use, [kind, text]
    UuidOf,    \* the canonical text of each text that reads as a UUID
    NumberOf,  \* and of each that reads as a u64
    PathOf,    \* where each text leads that is no name of a directory, as "a/b" or "..":
    Outside,   \* to a directory elsewhere, or (as "./a") to one directly in vm_root_path
    Machines,  \* the machines there are, [disks, cpu]
    Wanted     \* those that callers ask for under each id

\* Ids are printed in the canonical form of their kind, and what reads as a UUID
\* or a number is the name of a directory.
ASSUME InventoryAssumption ==
    /\ \A id \in Ids :
         \/ id.kind = "uuid" /\ id.text \in DOMAIN UuidOf /\ UuidOf[id.text] = id.text
         \/ id.kind = "u64" /\ id.text \in DOMAIN NumberOf /\ NumberOf[id.text] = id.text
         \/ id.kind = "string"
    /\ \A id \in Ids : id = [kind |-> id.kind, text |-> id.text]
    /\ \A t \in DOMAIN UuidOf : UuidOf[t] \in DOMAIN UuidOf /\ UuidOf[UuidOf[t]] = UuidOf[t]
    /\ \A t \in DOMAIN NumberOf : NumberOf[t] \in DOMAIN NumberOf /\ NumberOf[NumberOf[t]] = NumberOf[t]
    /\ DOMAIN UuidOf \cap DOMAIN NumberOf = {}
    /\ DOMAIN PathOf \cap (DOMAIN UuidOf \cup DOMAIN NumberOf) = {}
    /\ \A t \in DOMAIN PathOf : PathOf[t] \in Outside \/ PathOf[t] \notin DOMAIN PathOf
    /\ Outside \subseteq DOMAIN PathOf
    /\ Wanted \in [Ids -> SUBSET Machines]

\* Display and FromStr of FxId.
Text(id) == id.text

ParseStrings(text) ==
    IF text \in DOMAIN UuidOf THEN [kind |-> "uuid", text |-> UuidOf[text]]
    ELSE [kind |-> "string", text |-> text]
Parse(text) ==
    IF text \in DOMAIN UuidOf THEN [kind |-> "uuid", text |-> UuidOf[text]]
    ELSE IF text \in DOMAIN NumberOf THEN [kind |-> "u64", text |-> NumberOf[text]]
    ELSE [kind |-> "string", text |-> text]

\* The directory of a machine: vm_root_path, with the id pushed to it.
Dir(id) == IF Text(id) \in DOMAIN PathOf THEN PathOf[Text(id)] ELSE Text(id)

Dirs == {Dir(id) : id \in Ids}
Keys == Ids \cup {Parse(dir) : dir \in Dirs \ Outside}

VARIABLES
    process, \* directory -> the machine that runs there and is named by its pid file;
             \* history: by, the id it was started with
    made,    \* the runtime directories
    records, \* key -> the record in the metadata
    vms,     \* key -> the instance registered
    asked,   \* history: the machines ever asked for in a directory
    scanned, \* history: all directories were discovered since the last restart or
             \* shutdown, and no create has left a process behind after that
    legacy   \* directories whose record is of a version without desired

vars == <<process, made, records, vms, asked, scanned, legacy>>

Put(f, x, y) == [z \in DOMAIN f \cup {x} |-> IF z = x THEN y ELSE f[z]]
Without(f, x) == [z \in DOMAIN f \ {x} |-> f[z]]

----------------------------------------------------------------------------
(* Instances and records                                                   *)

\* existing_or_new
New(m) == [command |-> m, disks |-> m.disks]

ToRecordBare(vm) == [command |-> vm.command, desired |-> {}]

\* The desired configuration has the disks; the type of the CPU is only in the
\* command line.  A record of an old version has none, and gives no disks.
Desired(vm) == {vm.disks}
Configured(r) == UNION r.desired

\* metadata_record
ToRecord(vm) == [command |-> vm.command, desired |-> Desired(vm)]

\* existing_from_metadata_record
FromRecord(r) == [command |-> r.command, disks |-> Configured(r)]

\* An older version may have left machines that run, and their records.
Init ==
    /\ legacy \in SUBSET Dirs
    /\ \E by \in {g \in [Dirs -> Ids] : \A d \in Dirs : Dir(g[d]) = d},
          old \in [Dirs -> Machines], up \in SUBSET legacy :
         /\ \A d \in legacy : old[d] \in Wanted[by[d]]
         /\ process = [d \in up |-> [machine |-> old[d], by |-> by[d]]]
         /\ records = [key \in {by[d] : d \in legacy} |-> [command |-> old[Dir(key)], desired |-> {}]]
         /\ asked = [d \in Dirs |-> IF d \in legacy THEN {old[d]} ELSE {}]
    /\ made = legacy /\ vms = << >> /\ scanned = FALSE

Live(key) == Dir(key) \in DOMAIN process
Ask(d, m) == asked' = [asked EXCEPT ![d] = @ \cup {m}]

\* The process of the machine: attached to if one runs, or started with the
\* command line of vm.  Only a process of this very command line is found when
\* attaching failed: beside another one a second is started, which takes over
\* the pid file.
Run(key, vm) ==
    LET new == [machine |-> vm.command, by |-> key] IN
    /\ Dir(key) \in made
    /\ \/ Live(key) /\ UNCHANGED process
       \/ /\ Live(key) => process[Dir(key)].machine # vm.command
          /\ process' = Put(process, Dir(key), new)

----------------------------------------------------------------------------
(* The calls of the manager                                                *)

\* allocate does not care whether the machine runs.  Storage and metadata may
\* fail.
Allocate(id, m) ==
    /\ made' = made \cup {Dir(id)}
    /\ records' \in {records, Put(records, id, ToRecord(New(m)))}
    /\ Ask(Dir(id), m)
    /\ UNCHANGED <<process, vms, scanned, legacy>>

\* create attaches to a QEMU that runs, whatever it runs.  It may fail before
\* or after the record, and then leaves QEMU running.
Create(id, m) ==
    /\ Run(id, New(m))
    /\ Ask(Dir(id), m)
    /\ \/ /\ records' \in {records, Put(records, id, ToRecord(New(m)))}
          /\ scanned' = FALSE
          /\ UNCHANGED vms
       \/ /\ records' = Put(records, id, ToRecord(New(m)))
          /\ vms' = Put(vms, id, New(m))
          /\ UNCHANGED scanned
    /\ UNCHANGED <<made, legacy>>

\* run_watchers attaches to the machine of an entry, or starts it again.
Watch(key) ==
    /\ key \in DOMAIN vms
    /\ Run(key, vms[key])
    /\ records' \in {records, Put(records, key, ToRecord(vms[key]))}
    /\ UNCHANGED <<made, vms, asked, scanned, legacy>>

\* A stop that ends; the metadata may fail, which leaves the entry.
Stop(key) ==
    /\ key \in DOMAIN vms
    /\ process' = Without(process, Dir(key))
    /\ \/ UNCHANGED <<records, vms>>
       \/ /\ records' = Put(records, key, ToRecord(vms[key]))
          /\ vms' = Without(vms, key)
    /\ UNCHANGED <<made, asked, scanned, legacy>>

\* shutdown forgets the machines that have a worker, and does not stop them.  The
\* metadata may fail for some.
Shutdown ==
    \E gone \in SUBSET DOMAIN vms : \E told \in SUBSET gone :
      /\ vms' = [key \in DOMAIN vms \ gone |-> vms[key]]
      /\ records' = [key \in DOMAIN records \cup told |->
                        IF key \in told THEN ToRecord(vms[key]) ELSE records[key]]
      /\ scanned' = FALSE
      /\ UNCHANGED <<process, made, asked, legacy>>

\* register_existing for the directories in vm_root_path, until one fails; every
\* entry gets the same machine.
DiscoverDirs(m) ==
    \E found \in SUBSET (made \ Outside) :
      LET live == {key \in {Parse(d) : d \in found} : Live(key)} IN
      /\ vms' = [key \in DOMAIN vms \cup live |-> IF key \in live THEN New(m) ELSE vms[key]]
      /\ asked' = [d \in Dirs |-> IF d \in {Dir(key) : key \in live} THEN asked[d] \cup {m}
                                  ELSE asked[d]]
      /\ scanned' = (scanned \/ found = made \ Outside)
      /\ UNCHANGED <<process, made, records, legacy>>

\* discover_existing_from_metadata, until one record fails.
DiscoverRecords ==
    \E found \in SUBSET {key \in DOMAIN records : Live(key)} :
      /\ vms' = [key \in DOMAIN vms \cup found |->
                    IF key \in found THEN FromRecord(records[key]) ELSE vms[key]]
      /\ UNCHANGED <<process, made, records, asked, scanned, legacy>>

\* QEMU exits.
Exit(d) ==
    /\ process' = Without(process, d)
    /\ UNCHANGED <<made, records, vms, asked, scanned, legacy>>

Restart ==
    /\ vms' = << >> /\ scanned' = FALSE
    /\ UNCHANGED <<process, made, records, asked, legacy>>

Next ==
    \/ \E id \in Ids : \E m \in Wanted[id] : Allocate(id, m) \/ Create(id, m)
    \/ \E key \in DOMAIN vms : Watch(key) \/ Stop(key)
    \/ \E m \in Machines : DiscoverDirs(m)
    \/ DiscoverRecords \/ Shutdown \/ Restart
    \/ \E d \in DOMAIN process : Exit(d)

Spec == Init /\ [][Next]_vars

----------------------------------------------------------------------------
(* Properties                                                              *)

\* A string that reads as a UUID or a number is another id once it was printed
\* and parsed, and one that is no name leads to a directory that is not listed,
\* or is listed under another name.
Misread(id) == id.kind = "string" /\ id.text \in DOMAIN UuidOf \cup DOMAIN NumberOf
Misplaced(id) == Text(id) \in DOMAIN PathOf
LostDirs == {Dir(id) : id \in {x \in Ids : Misread(x) \/ Misplaced(x)}}

\* A machine that runs is registered under the id it was started with and under
\* no other, and once all directories were discovered it is registered, until a
\* shutdown, a restart or a create that fails; unless an id of its directory is
\* misread or no name of a directory.
FoundUnderItsId ==
    \A d \in DOMAIN process \ LostDirs :
      /\ \A key \in DOMAIN vms : Dir(key) = d => key = process[d].by
      /\ scanned => process[d].by \in DOMAIN vms

\* However often machine and manager are stopped, shut down, started again and
\* discovered, an entry holds the command line the machine runs with, and its
\* disks unless the record is of an old version; if no caller, and no discovery
\* of directories, ever asked for another machine.
MachineKept ==
    \A key \in DOMAIN vms : \A m \in Machines :
      asked[Dir(key)] = {m} =>
        /\ vms[key].command = m
        /\ Live(key) => process[Dir(key)].machine = m
        /\ Dir(key) \notin legacy => vms[key].disks = m.disks

=============================================================================
