------------------------ MODULE QemuInventoryProofs ------------------------
(***************************************************************************)
(* Proofs about the inventory: for any ids, machines and number of         *)
(* directories, an entry is found under the id of its process and keeps    *)
(* the machine that was asked for.                                         *)
(*                                                                         *)
(* MachineKept is not inductive: an entry is made from a record, and a     *)
(* record from an entry.  So the same is said of processes, records and    *)
(* entries: what they hold is of a machine asked for in their directory.   *)
(***************************************************************************)
EXTENDS QemuInventory, TLAPS

AskedDisks(d, x) == d \in legacy \/ \E m \in asked[d] : x = m.disks

TypesOK ==
    /\ DOMAIN process \subseteq made /\ made \subseteq Dirs /\ legacy \subseteq Dirs
    /\ asked \in [Dirs -> SUBSET Machines]

ProcessOK(d) ==
    /\ process[d].machine \in asked[d]
    /\ process[d].by \in Keys /\ Dir(process[d].by) = d

RecordOK(key) ==
    /\ key \in Keys /\ Dir(key) \in Dirs
    /\ records[key].command \in asked[Dir(key)]
    /\ \/ records[key].desired = {} /\ Dir(key) \in legacy
       \/ \E x : records[key].desired = {x} /\ AskedDisks(Dir(key), x)

EntryOK(key) ==
    /\ key \in Keys /\ Dir(key) \in Dirs
    /\ vms[key].command \in asked[Dir(key)]
    /\ AskedDisks(Dir(key), vms[key].disks)

ScannedOK ==
    scanned => \A d \in DOMAIN process \ LostDirs : process[d].by \in DOMAIN vms

IInv ==
    /\ TypesOK
    /\ \A d \in DOMAIN process : ProcessOK(d)
    /\ \A key \in DOMAIN records : RecordOK(key)
    /\ \A key \in DOMAIN vms : EntryOK(key)
    /\ ScannedOK

----------------------------------------------------------------------------

\* An id of a directory where nothing is lost is what its name is parsed to.
LEMMA ParseOfId ==
    ASSUME NEW id \in Ids, Dir(id) \notin LostDirs
    PROVE  Parse(Dir(id)) = id /\ Dir(id) \notin DOMAIN PathOf
<1>1. ~Misread(id) /\ ~Misplaced(id)
  BY DEF LostDirs
<1>2. id = [kind |-> id.kind, text |-> id.text]
  BY InventoryAssumption
<1>3. Dir(id) = id.text /\ id.text \notin DOMAIN PathOf
  BY <1>1 DEF Misplaced, Dir, Text
<1>4. CASE id.kind = "uuid" /\ id.text \in DOMAIN UuidOf /\ UuidOf[id.text] = id.text
  BY <1>2, <1>3, <1>4 DEF Parse
<1>5. CASE id.kind = "u64" /\ id.text \in DOMAIN NumberOf /\ NumberOf[id.text] = id.text
  BY <1>2, <1>3, <1>5, InventoryAssumption DEF Parse
<1>6. CASE id.kind = "string"
  <2>1. id.text \notin DOMAIN UuidOf /\ id.text \notin DOMAIN NumberOf
    BY <1>1, <1>6 DEF Misread
  <2> QED
    BY <2>1, <1>2, <1>3, <1>6 DEF Parse
<1> QED
  BY <1>3, <1>4, <1>5, <1>6, InventoryAssumption

\* A directory in vm_root_path has the name that leads to it.
LEMMA PlainName ==
    ASSUME NEW dir \in Dirs \ Outside
    PROVE  dir \notin DOMAIN PathOf
BY InventoryAssumption DEF Dirs, Dir

\* And so is what discovery makes of any directory that it lists.
LEMMA ParseOfParse ==
    ASSUME NEW dir \in Dirs \ Outside
    PROVE  Parse(Dir(Parse(dir))) = Parse(dir)
<1>1. CASE dir \in DOMAIN UuidOf
  <2>1. Parse(dir) = [kind |-> "uuid", text |-> UuidOf[dir]]
    BY <1>1 DEF Parse
  <2>2. UuidOf[dir] \in DOMAIN UuidOf /\ UuidOf[UuidOf[dir]] = UuidOf[dir]
        /\ UuidOf[dir] \notin DOMAIN PathOf
    BY <1>1, InventoryAssumption
  <2>3. Dir(Parse(dir)) = UuidOf[dir]
    BY <2>1, <2>2 DEF Dir, Text
  <2> QED
    BY <2>1, <2>2, <2>3 DEF Parse
<1>2. CASE dir \notin DOMAIN UuidOf /\ dir \in DOMAIN NumberOf
  <2>1. Parse(dir) = [kind |-> "u64", text |-> NumberOf[dir]]
    BY <1>2 DEF Parse
  <2>2. NumberOf[dir] \in DOMAIN NumberOf /\ NumberOf[NumberOf[dir]] = NumberOf[dir]
        /\ NumberOf[dir] \notin DOMAIN PathOf /\ NumberOf[dir] \notin DOMAIN UuidOf
    BY <1>2, InventoryAssumption
  <2>3. Dir(Parse(dir)) = NumberOf[dir]
    BY <2>1, <2>2 DEF Dir, Text
  <2> QED
    BY <2>1, <2>2, <2>3 DEF Parse
<1>3. CASE dir \notin DOMAIN UuidOf /\ dir \notin DOMAIN NumberOf
  <2>1. Parse(dir) = [kind |-> "string", text |-> dir]
    BY <1>3 DEF Parse
  <2>2. Dir(Parse(dir)) = dir
    BY <2>1, PlainName DEF Dir, Text
  <2> QED
    BY <2>2
<1> QED
  BY <1>1, <1>2, <1>3

\* Two keys of one directory are the same, unless an id of it is misread or
\* misplaced.
LEMMA OneKey ==
    ASSUME NEW key \in Keys, Dir(key) \notin LostDirs
    PROVE  Parse(Dir(key)) = key
BY ParseOfId, ParseOfParse DEF Keys

\* And such a directory is listed.
LEMMA Listed ==
    ASSUME NEW dir \in Dirs, dir \notin LostDirs
    PROVE  dir \notin Outside
<1>1. PICK id \in Ids : dir = Dir(id)
  BY DEF Dirs
<1>2. dir \notin DOMAIN PathOf
  BY <1>1, ParseOfId
<1> QED
  BY <1>2, InventoryAssumption

LEMMA DirOfKey == \A id \in Ids : id \in Keys /\ Dir(id) \in Dirs
BY DEF Keys, Dirs

----------------------------------------------------------------------------
(* Init and the steps                                                      *)

LEMMA InitInv == Init => IInv
<1> SUFFICES ASSUME Init PROVE IInv
  OBVIOUS
<1>1. PICK by \in {g \in [Dirs -> Ids] : \A d \in Dirs : Dir(g[d]) = d},
           old \in [Dirs -> Machines], up \in SUBSET legacy :
         /\ \A d \in legacy : old[d] \in Wanted[by[d]]
         /\ process = [d \in up |-> [machine |-> old[d], by |-> by[d]]]
         /\ records = [key \in {by[d] : d \in legacy} |-> [command |-> old[Dir(key)], desired |-> {}]]
         /\ asked = [d \in Dirs |-> IF d \in legacy THEN {old[d]} ELSE {}]
  BY DEF Init
<1>2. legacy \subseteq Dirs /\ made = legacy /\ vms = << >> /\ scanned = FALSE
  BY DEF Init
<1>3. TypesOK
  BY <1>1, <1>2 DEF TypesOK
<1>4. \A d \in DOMAIN process : ProcessOK(d)
  BY <1>1, <1>2, DirOfKey DEF ProcessOK
<1>5. \A key \in DOMAIN records : RecordOK(key)
  BY <1>1, <1>2, DirOfKey DEF RecordOK
<1>6. \A key \in DOMAIN vms : EntryOK(key)
  BY <1>2
<1> QED
  BY <1>2, <1>3, <1>4, <1>5, <1>6 DEF IInv, ScannedOK

\* What was asked for once stays asked for, so what nobody touches stays good.
LEMMA Grows ==
    ASSUME IInv, asked' \in [Dirs -> SUBSET Machines], UNCHANGED legacy,
           \A d \in Dirs : asked[d] \subseteq asked'[d]
    PROVE  /\ \A d \in DOMAIN process : d \in DOMAIN process' /\ process'[d] = process[d] => ProcessOK(d)'
           /\ \A key \in DOMAIN records :
                key \in DOMAIN records' /\ records'[key] = records[key] => RecordOK(key)'
           /\ \A key \in DOMAIN vms : key \in DOMAIN vms' /\ vms'[key] = vms[key] => EntryOK(key)'
<1>1. \A d \in Dirs : \A x : AskedDisks(d, x) => AskedDisks(d, x)'
  BY DEF AskedDisks
<1>2. \A d \in DOMAIN process : d \in DOMAIN process' /\ process'[d] = process[d] => ProcessOK(d)'
  BY DEF IInv, TypesOK, ProcessOK
<1>3. ASSUME NEW key \in DOMAIN records, key \in DOMAIN records', records'[key] = records[key]
      PROVE  RecordOK(key)'
  <2>1. RecordOK(key)
    BY DEF IInv
  <2>2. key \in Keys /\ Dir(key) \in Dirs /\ records'[key].command \in asked'[Dir(key)]
    BY <2>1, <1>3 DEF RecordOK
  <2>3. \/ records'[key].desired = {} /\ Dir(key) \in legacy'
        \/ \E x : records'[key].desired = {x} /\ AskedDisks(Dir(key), x)'
    BY <2>1, <1>1, <1>3 DEF RecordOK
  <2> QED
    BY <2>2, <2>3 DEF RecordOK
<1>4. ASSUME NEW key \in DOMAIN vms, key \in DOMAIN vms', vms'[key] = vms[key]
      PROVE  EntryOK(key)'
  BY <1>1, <1>4 DEF IInv, EntryOK
<1> QED
  BY <1>2, <1>3, <1>4

\* An entry that is registered from a machine asked for, or from its record, is
\* good, and so is the record that is written of a good one.
LEMMA NewOK ==
    ASSUME NEW key \in Keys, Dir(key) \in Dirs, NEW m, (m \in asked[Dir(key)])',
           (key \in DOMAIN vms /\ vms[key] = New(m))'
    PROVE  EntryOK(key)'
BY DEF EntryOK, AskedDisks, New

LEMMA NewRecordOK ==
    ASSUME NEW key \in Keys, Dir(key) \in Dirs, NEW m, (m \in asked[Dir(key)])',
           (key \in DOMAIN records /\ records[key] = ToRecord(New(m)))'
    PROVE  RecordOK(key)'
BY DEF RecordOK, AskedDisks, New, ToRecord, Desired

LEMMA RecordOfEntry ==
    ASSUME NEW key \in DOMAIN vms, EntryOK(key), UNCHANGED <<asked, legacy>>,
           key \in DOMAIN records', records'[key] = ToRecord(vms[key])
    PROVE  RecordOK(key)'
<1> DEFINE x == vms[key].disks
<1>1. records'[key].desired = {x} /\ records'[key].command = vms[key].command
  BY DEF ToRecord, Desired
<1>2. asked' = asked /\ legacy' = legacy
  OBVIOUS
<1>3. key \in Keys /\ Dir(key) \in Dirs /\ vms[key].command \in asked[Dir(key)]
  BY DEF EntryOK
<1>4. Dir(key) \in legacy' \/ \E m \in asked'[Dir(key)] : x = m.disks
  BY <1>2 DEF EntryOK, AskedDisks
<1>5. \E y : records'[key].desired = {y} /\ (Dir(key) \in legacy' \/ \E m \in asked'[Dir(key)] : y = m.disks)
  <2> HIDE DEF x
  <2> QED
    BY <1>1, <1>4
<1> QED
  BY <1>1, <1>2, <1>3, <1>5 DEF RecordOK, AskedDisks

LEMMA Rebuilt ==
    ASSUME NEW key \in DOMAIN records, RecordOK(key)
    PROVE  /\ FromRecord(records[key]).command \in asked[Dir(key)]
           /\ AskedDisks(Dir(key), FromRecord(records[key]).disks)
<1>1. FromRecord(records[key]).command = records[key].command
  BY DEF FromRecord
<1>2. FromRecord(records[key]).disks = UNION records[key].desired
  BY DEF FromRecord, Configured
<1>3. CASE records[key].desired = {} /\ Dir(key) \in legacy
  BY <1>1, <1>2, <1>3 DEF RecordOK, AskedDisks
<1>4. CASE \E x : records[key].desired = {x} /\ AskedDisks(Dir(key), x)
  <2>1. PICK x : records[key].desired = {x} /\ AskedDisks(Dir(key), x)
    BY <1>4
  <2>2. UNION records[key].desired = x
    BY <2>1
  <2> QED
    BY <1>1, <1>2, <2>1, <2>2 DEF RecordOK
<1> QED
  BY <1>3, <1>4 DEF RecordOK

----------------------------------------------------------------------------

LEMMA AllocateInv ==
    ASSUME IInv, NEW id \in Ids, NEW m \in Machines, Allocate(id, m)
    PROVE  IInv'
<1>1. id \in Keys /\ Dir(id) \in Dirs
  BY DirOfKey
<1>2. asked' \in [Dirs -> SUBSET Machines] /\ \A d \in Dirs : asked[d] \subseteq asked'[d]
  BY <1>1 DEF IInv, TypesOK, Allocate, Ask
<1>3. m \in asked'[Dir(id)]
  BY <1>1 DEF IInv, TypesOK, Allocate, Ask
<1>4. UNCHANGED <<process, vms, scanned, legacy>>
  BY DEF Allocate
<1>5. TypesOK'
  BY <1>1, <1>2, <1>4 DEF IInv, TypesOK, Allocate
<1>6. \A key \in DOMAIN records' : RecordOK(key)'
  <2>1. CASE UNCHANGED records
    BY <2>1, <1>2, <1>4, Grows DEF IInv
  <2>2. CASE records' = Put(records, id, ToRecord(New(m)))
    <3>1. \A key \in DOMAIN records' : key # id => key \in DOMAIN records /\ records'[key] = records[key]
      BY <2>2 DEF Put
    <3>2. id \in DOMAIN records' /\ records'[id] = ToRecord(New(m))
      BY <2>2 DEF Put
    <3> QED
      BY <3>1, <3>2, <1>1, <1>2, <1>3, <1>4, Grows, NewRecordOK DEF IInv
  <2> QED
    BY <2>1, <2>2 DEF Allocate
<1>7. (\A d \in DOMAIN process : ProcessOK(d))' /\ (\A key \in DOMAIN vms : EntryOK(key))'
  BY <1>2, <1>4, Grows DEF IInv
<1>8. ScannedOK'
  BY <1>4 DEF IInv, ScannedOK
<1> QED
  BY <1>5, <1>6, <1>7, <1>8 DEF IInv

\* The process that Run finds or starts.
LEMMA RunOK ==
    ASSUME IInv, NEW key \in Keys, Dir(key) \in Dirs, NEW vm, Run(key, vm),
           asked' \in [Dirs -> SUBSET Machines], UNCHANGED <<made, legacy>>,
           \A d \in Dirs : asked[d] \subseteq asked'[d],
           vm.command \in asked'[Dir(key)]
    PROVE  /\ TypesOK' /\ (\A d \in DOMAIN process : ProcessOK(d))'
           /\ \A d \in DOMAIN process' :
                \/ d \in DOMAIN process /\ process'[d].by = process[d].by
                \/ process'[d].by = key
<1>1. CASE UNCHANGED process
  BY <1>1, Grows DEF IInv, TypesOK
<1>2. CASE process' = Put(process, Dir(key), [machine |-> vm.command, by |-> key])
  <2>1. \A d \in DOMAIN process' : d # Dir(key) => d \in DOMAIN process /\ process'[d] = process[d]
    BY <1>2 DEF Put
  <2>2. Dir(key) \in DOMAIN process' /\ process'[Dir(key)] = [machine |-> vm.command, by |-> key]
    BY <1>2 DEF Put
  <2>3. ProcessOK(Dir(key))'
    BY <2>2 DEF ProcessOK
  <2>4. TypesOK'
    BY <2>1 DEF Run, IInv, TypesOK
  <2> QED
    BY <2>1, <2>2, <2>3, <2>4, Grows DEF IInv
<1> QED
  BY <1>1, <1>2 DEF Run

LEMMA CreateInv ==
    ASSUME IInv, NEW id \in Ids, NEW m \in Machines, Create(id, m)
    PROVE  IInv'
<1>1. id \in Keys /\ Dir(id) \in Dirs
  BY DirOfKey
<1>2. /\ asked' \in [Dirs -> SUBSET Machines] /\ \A d \in Dirs : asked[d] \subseteq asked'[d]
      /\ m \in asked'[Dir(id)]
  BY <1>1 DEF IInv, TypesOK, Create, Ask
<1>3. UNCHANGED <<made, legacy>> /\ Run(id, New(m)) /\ New(m).command = m
  BY DEF Create, New
<1>4. /\ TypesOK' /\ (\A d \in DOMAIN process : ProcessOK(d))'
      /\ \A d \in DOMAIN process' :
           \/ d \in DOMAIN process /\ process'[d].by = process[d].by
           \/ process'[d].by = id
  BY <1>1, <1>2, <1>3, RunOK
<1>5. records' = records \/ records' = Put(records, id, ToRecord(New(m)))
  BY DEF Create
<1>6. \A key \in DOMAIN records' : RecordOK(key)'
  <2>1. CASE UNCHANGED records
    BY <2>1, <1>2, <1>3, Grows DEF IInv
  <2>2. CASE records' = Put(records, id, ToRecord(New(m)))
    <3>1. \A key \in DOMAIN records' : key # id => key \in DOMAIN records /\ records'[key] = records[key]
      BY <2>2 DEF Put
    <3>2. id \in DOMAIN records' /\ records'[id] = ToRecord(New(m))
      BY <2>2 DEF Put
    <3> QED
      BY <3>1, <3>2, <1>1, <1>2, <1>3, Grows, NewRecordOK DEF IInv
  <2> QED
    BY <2>1, <2>2, <1>5
<1>7. (\A key \in DOMAIN vms : EntryOK(key))' /\ ScannedOK'
  <2>1. CASE scanned' = FALSE /\ UNCHANGED vms
    BY <2>1, <1>2, <1>3, Grows DEF IInv, ScannedOK
  <2>2. CASE vms' = Put(vms, id, New(m)) /\ UNCHANGED scanned
    <3>1. \A key \in DOMAIN vms' : key # id => key \in DOMAIN vms /\ vms'[key] = vms[key]
      BY <2>2 DEF Put
    <3>2. id \in DOMAIN vms' /\ vms'[id] = New(m) /\ DOMAIN vms \subseteq DOMAIN vms'
      BY <2>2 DEF Put
    <3>3. ScannedOK'
      BY <3>2, <2>2, <1>4 DEF IInv, ScannedOK
    <3> QED
      BY <3>1, <3>2, <3>3, <1>1, <1>2, <1>3, Grows, NewOK DEF IInv
  <2> QED
    BY <2>1, <2>2 DEF Create
<1> QED
  BY <1>4, <1>6, <1>7 DEF IInv

LEMMA WatchInv ==
    ASSUME IInv, NEW key \in DOMAIN vms, Watch(key)
    PROVE  IInv'
<1>1. EntryOK(key) /\ key \in Keys /\ Dir(key) \in Dirs /\ vms[key].command \in asked[Dir(key)]
  BY DEF IInv, EntryOK
<1>2. UNCHANGED <<made, vms, asked, scanned, legacy>> /\ Run(key, vms[key])
  BY DEF Watch
<1>3. asked' \in [Dirs -> SUBSET Machines] /\ \A d \in Dirs : asked[d] \subseteq asked'[d]
  BY <1>2 DEF IInv, TypesOK
<1>4. /\ TypesOK' /\ (\A d \in DOMAIN process : ProcessOK(d))'
      /\ \A d \in DOMAIN process' :
           \/ d \in DOMAIN process /\ process'[d].by = process[d].by
           \/ process'[d].by = key
  BY <1>1, <1>2, <1>3, RunOK
<1>5. \A k \in DOMAIN records' : RecordOK(k)'
  <2>1. CASE UNCHANGED records
    BY <2>1, <1>2, <1>3, Grows DEF IInv
  <2>2. CASE records' = Put(records, key, ToRecord(vms[key]))
    <3>1. \A k \in DOMAIN records' : k # key => k \in DOMAIN records /\ records'[k] = records[k]
      BY <2>2 DEF Put
    <3>2. key \in DOMAIN records' /\ records'[key] = ToRecord(vms[key])
      BY <2>2 DEF Put
    <3> QED
      BY <3>1, <3>2, <1>1, <1>2, <1>3, Grows, RecordOfEntry DEF IInv
  <2> QED
    BY <2>1, <2>2 DEF Watch
<1>6. (\A k \in DOMAIN vms : EntryOK(k))'
  BY <1>2, <1>3, Grows DEF IInv
<1>7. ScannedOK'
  BY <1>2, <1>4 DEF IInv, ScannedOK
<1> QED
  BY <1>4, <1>5, <1>6, <1>7 DEF IInv

\* A process less, as when QEMU exits.
LEMMA ExitOK ==
    ASSUME IInv, NEW d, process' = Without(process, d), UNCHANGED <<made, asked, legacy>>
    PROVE  /\ TypesOK' /\ (\A x \in DOMAIN process : ProcessOK(x))'
           /\ \A x \in DOMAIN process' : x # d /\ x \in DOMAIN process /\ process'[x] = process[x]
<1>1. \A x \in DOMAIN process' : x # d /\ x \in DOMAIN process /\ process'[x] = process[x]
  BY DEF Without
<1>2. TypesOK'
  BY <1>1 DEF IInv, TypesOK
<1> QED
  BY <1>1, <1>2, Grows DEF IInv, TypesOK

LEMMA StopInv ==
    ASSUME IInv, NEW key \in DOMAIN vms, Stop(key)
    PROVE  IInv'
<1>1. EntryOK(key)
  BY DEF IInv
<1>2. UNCHANGED <<made, asked, scanned, legacy>> /\ process' = Without(process, Dir(key))
  BY DEF Stop
<1>3. asked' \in [Dirs -> SUBSET Machines] /\ \A d \in Dirs : asked[d] \subseteq asked'[d]
  BY <1>2 DEF IInv, TypesOK
<1>4. /\ TypesOK' /\ (\A x \in DOMAIN process : ProcessOK(x))'
      /\ \A x \in DOMAIN process' : x # Dir(key) /\ x \in DOMAIN process /\ process'[x] = process[x]
  BY <1>2, ExitOK
<1>5. CASE UNCHANGED <<records, vms>>
  <2>1. ScannedOK'
    BY <1>2, <1>4, <1>5 DEF IInv, ScannedOK
  <2> QED
    BY <2>1, <1>2, <1>3, <1>4, <1>5, Grows DEF IInv
<1>6. CASE records' = Put(records, key, ToRecord(vms[key])) /\ vms' = Without(vms, key)
  <2>1. \A k \in DOMAIN records' : k # key => k \in DOMAIN records /\ records'[k] = records[k]
    BY <1>6 DEF Put
  <2>2. key \in DOMAIN records' /\ records'[key] = ToRecord(vms[key])
    BY <1>6 DEF Put
  <2>3. \A k \in DOMAIN records' : RecordOK(k)'
    BY <2>1, <2>2, <1>1, <1>2, <1>3, Grows, RecordOfEntry DEF IInv
  <2>4. /\ \A k \in DOMAIN vms' : k \in DOMAIN vms /\ vms'[k] = vms[k]
        /\ \A k \in DOMAIN vms : k # key => k \in DOMAIN vms'
    BY <1>6 DEF Without
  <2>5. (\A k \in DOMAIN vms : EntryOK(k))'
    BY <2>4, <1>2, <1>3, Grows DEF IInv
  <2>6. ScannedOK'
    <3>1. \A x \in DOMAIN process' : process[x].by # key
      BY <1>4 DEF IInv, ProcessOK
    <3> QED
      BY <3>1, <2>4, <1>2, <1>4 DEF IInv, ScannedOK
  <2> QED
    BY <2>3, <2>5, <2>6, <1>4 DEF IInv
<1> QED
  BY <1>5, <1>6 DEF Stop

LEMMA DiscoverDirsInv ==
    ASSUME IInv, NEW m \in Machines, DiscoverDirs(m)
    PROVE  IInv'
<1>1. PICK found \in SUBSET (made \ Outside) :
        LET live == {key \in {Parse(d) : d \in found} : Live(key)} IN
        /\ vms' = [key \in DOMAIN vms \cup live |-> IF key \in live THEN New(m) ELSE vms[key]]
        /\ asked' = [d \in Dirs |-> IF d \in {Dir(key) : key \in live} THEN asked[d] \cup {m}
                                    ELSE asked[d]]
        /\ scanned' = (scanned \/ found = made \ Outside)
        /\ UNCHANGED <<process, made, records, legacy>>
  BY DEF DiscoverDirs
<1> DEFINE live == {key \in {Parse(d) : d \in found} : Live(key)}
<1>2. UNCHANGED <<process, made, records, legacy>> /\ scanned' = (scanned \/ found = made \ Outside)
  BY <1>1
<1>3. asked' \in [Dirs -> SUBSET Machines] /\ \A d \in Dirs : asked[d] \subseteq asked'[d]
  BY <1>1 DEF IInv, TypesOK
<1>4. \A key \in live : key \in Keys /\ Dir(key) \in Dirs /\ m \in asked'[Dir(key)]
  <2>1. \A key \in live : key \in Keys /\ Dir(key) \in Dirs
    BY DEF IInv, TypesOK, Live, Keys
  <2> QED
    BY <2>1, <1>1
<1>5. /\ \A key \in DOMAIN vms' : IF key \in live THEN vms'[key] = New(m)
                                 ELSE key \in DOMAIN vms /\ vms'[key] = vms[key]
      /\ DOMAIN vms' = DOMAIN vms \cup live
  BY <1>1
<1>6. TypesOK'
  BY <1>2, <1>3 DEF IInv, TypesOK
<1>7. (\A d \in DOMAIN process : ProcessOK(d))' /\ (\A key \in DOMAIN records : RecordOK(key))'
  BY <1>2, <1>3, Grows DEF IInv
<1>8. (\A key \in DOMAIN vms : EntryOK(key))'
  BY <1>2, <1>3, <1>4, <1>5, Grows, NewOK DEF IInv
<1>9. ScannedOK'
  <2>1. CASE ~scanned /\ found = made \ Outside
    <3> SUFFICES ASSUME NEW d \in DOMAIN process, d \notin LostDirs
                 PROVE  process[d].by \in live
      BY <1>2, <1>5 DEF ScannedOK
    <3>1. process[d].by \in Keys /\ Dir(process[d].by) = d /\ d \in made
      BY DEF IInv, ProcessOK, TypesOK
    <3>2. Parse(d) = process[d].by
      BY <3>1, OneKey
    <3>3. d \in found
      BY <3>1, <2>1, Listed DEF IInv, TypesOK
    <3> QED
      BY <3>1, <3>2, <3>3 DEF Live
  <2>2. CASE scanned
    BY <2>2, <1>2, <1>5 DEF IInv, ScannedOK
  <2>3. CASE ~scanned'
    BY <2>3 DEF ScannedOK
  <2> QED
    BY <2>1, <2>2, <2>3, <1>2
<1> QED
  BY <1>6, <1>7, <1>8, <1>9 DEF IInv

LEMMA DiscoverRecordsInv ==
    ASSUME IInv, DiscoverRecords
    PROVE  IInv'
<1>1. PICK found \in SUBSET {key \in DOMAIN records : Live(key)} :
        /\ vms' = [key \in DOMAIN vms \cup found |->
                      IF key \in found THEN FromRecord(records[key]) ELSE vms[key]]
        /\ UNCHANGED <<process, made, records, asked, scanned, legacy>>
  BY DEF DiscoverRecords
<1>2. UNCHANGED <<process, made, records, asked, scanned, legacy>>
  BY <1>1
<1>3. asked' \in [Dirs -> SUBSET Machines] /\ \A d \in Dirs : asked[d] \subseteq asked'[d]
  BY <1>2 DEF IInv, TypesOK
<1>4. /\ \A key \in DOMAIN vms' : IF key \in found THEN vms'[key] = FromRecord(records[key])
                                 ELSE key \in DOMAIN vms /\ vms'[key] = vms[key]
      /\ DOMAIN vms' = DOMAIN vms \cup found
  BY <1>1
<1>5. \A key \in found : EntryOK(key)'
  <2> SUFFICES ASSUME NEW key \in found PROVE EntryOK(key)'
    OBVIOUS
  <2>1. RecordOK(key) /\ key \in DOMAIN records
    BY <1>1 DEF IInv
  <2>2. FromRecord(records[key]).command \in asked[Dir(key)]
        /\ AskedDisks(Dir(key), FromRecord(records[key]).disks)
    BY <2>1, Rebuilt
  <2>3. vms'[key] = FromRecord(records[key])
    BY <1>4
  <2> QED
    BY <2>1, <2>2, <2>3, <1>2 DEF EntryOK, RecordOK, AskedDisks
<1>6. (\A key \in DOMAIN vms : EntryOK(key))'
  BY <1>2, <1>3, <1>4, <1>5, Grows DEF IInv
<1>7. ScannedOK'
  BY <1>2, <1>4 DEF IInv, ScannedOK
<1> QED
  BY <1>2, <1>3, <1>6, <1>7, Grows DEF IInv, TypesOK

LEMMA ShutdownInv ==
    ASSUME IInv, Shutdown
    PROVE  IInv'
<1>1. PICK gone \in SUBSET DOMAIN vms : \E told \in SUBSET gone :
        /\ vms' = [key \in DOMAIN vms \ gone |-> vms[key]]
        /\ records' = [key \in DOMAIN records \cup told |->
                          IF key \in told THEN ToRecord(vms[key]) ELSE records[key]]
        /\ scanned' = FALSE
        /\ UNCHANGED <<process, made, asked, legacy>>
  BY DEF Shutdown
<1>2. PICK told \in SUBSET gone :
        records' = [key \in DOMAIN records \cup told |->
                      IF key \in told THEN ToRecord(vms[key]) ELSE records[key]]
  BY <1>1
<1>3. UNCHANGED <<process, made, asked, legacy>>
  BY <1>1
<1>4. asked' \in [Dirs -> SUBSET Machines] /\ \A d \in Dirs : asked[d] \subseteq asked'[d]
  BY <1>3 DEF IInv, TypesOK
<1>5. \A key \in DOMAIN records' :
        IF key \in told THEN key \in DOMAIN vms /\ records'[key] = ToRecord(vms[key])
        ELSE key \in DOMAIN records /\ records'[key] = records[key]
  BY <1>2
<1>6. \A key \in DOMAIN records' : RecordOK(key)'
  BY <1>3, <1>4, <1>5, Grows, RecordOfEntry DEF IInv
<1>7. \A key \in DOMAIN vms' : key \in DOMAIN vms /\ vms'[key] = vms[key]
  BY <1>1
<1>8. (\A key \in DOMAIN vms : EntryOK(key))'
  BY <1>3, <1>4, <1>7, Grows DEF IInv
<1>9. TypesOK' /\ (\A d \in DOMAIN process : ProcessOK(d))'
  BY <1>3, <1>4, Grows DEF IInv, TypesOK
<1>10. ScannedOK'
  BY <1>1 DEF ScannedOK
<1> QED
  BY <1>6, <1>8, <1>9, <1>10 DEF IInv

LEMMA NextInv == IInv /\ [Next]_vars => IInv'
<1> SUFFICES ASSUME IInv, [Next]_vars PROVE IInv'
  OBVIOUS
<1>1. CASE UNCHANGED vars
  BY <1>1 DEF vars, IInv, TypesOK, ProcessOK, RecordOK, EntryOK, ScannedOK, AskedDisks
<1>2. ASSUME NEW d \in DOMAIN process, Exit(d) PROVE IInv'
  <2>1. process' = Without(process, d) /\ UNCHANGED <<made, records, vms, asked, scanned, legacy>>
    BY <1>2 DEF Exit
  <2>2. /\ TypesOK' /\ (\A x \in DOMAIN process : ProcessOK(x))'
        /\ \A x \in DOMAIN process' : x # d /\ x \in DOMAIN process /\ process'[x] = process[x]
    BY <2>1, ExitOK
  <2>3. (\A key \in DOMAIN records : RecordOK(key))' /\ (\A key \in DOMAIN vms : EntryOK(key))'
    BY <2>1, Grows DEF IInv, TypesOK
  <2>4. ScannedOK'
    BY <2>1, <2>2 DEF IInv, ScannedOK
  <2> QED
    BY <2>2, <2>3, <2>4 DEF IInv
<1>3. CASE Restart
  <2>1. DOMAIN vms' = {} /\ scanned' = FALSE /\ UNCHANGED <<process, made, records, asked, legacy>>
    BY <1>3 DEF Restart
  <2> QED
    BY <2>1, Grows DEF IInv, TypesOK, ScannedOK
<1> QED
  <2>1. \A id \in Ids : Wanted[id] \subseteq Machines
    BY InventoryAssumption
  <2> QED
    BY <2>1, <1>1, <1>2, <1>3, AllocateInv, CreateInv, WatchInv, StopInv, DiscoverDirsInv,
       DiscoverRecordsInv, ShutdownInv DEF Next

LEMMA Invariance == Spec => []IInv
<1> QED
  BY InitInv, NextInv, PTL DEF Spec

----------------------------------------------------------------------------
(* The theorems                                                            *)

\* Whatever was asked for, stopped, shut down, started and discovered, an entry
\* holds the machine that runs, if no other was asked for.
THEOREM MachineKeptHolds == Spec => []MachineKept
<1>1. IInv => MachineKept
  BY DEF IInv, TypesOK, ProcessOK, EntryOK, AskedDisks, MachineKept, Live
<1> QED
  BY <1>1, Invariance, PTL

\* A machine that runs has no entry but under its id, and has this entry from the
\* discovery of all directories to the next shutdown, restart or failed create;
\* whatever the ids, unless one of its directory is a string that reads as a
\* number or a UUID, or that is no name of a directory.
THEOREM FoundUnderItsIdHolds == Spec => []FoundUnderItsId
<1>1. IInv => FoundUnderItsId
  <2> SUFFICES ASSUME IInv, NEW d \in DOMAIN process, d \notin LostDirs
               PROVE  /\ \A key \in DOMAIN vms : Dir(key) = d => key = process[d].by
                      /\ scanned => process[d].by \in DOMAIN vms
    BY DEF FoundUnderItsId
  <2>1. process[d].by \in Keys /\ Dir(process[d].by) = d
    BY DEF IInv, ProcessOK
  <2>2. \A key \in DOMAIN vms : key \in Keys
    BY DEF IInv, EntryOK
  <2> QED
    BY <2>1, <2>2, OneKey DEF IInv, ScannedOK
<1> QED
  BY <1>1, Invariance, PTL

=============================================================================
