-------------------------- MODULE MCQemuInventory --------------------------
(* A number, a string that reads as this number but has a directory of its *)
(* own, a string that is a path below vm_root_path, and two machines, of   *)
(* which only the number is asked for with both.                           *)
EXTENDS QemuInventory, TLC

Id(kind, text) == [kind |-> kind, text |-> text]

MCIds == {Id("u64", "7"), Id("string", "007"), Id("string", "a/b")}
MCUuidOf == "67E5" :> "67e5" @@ "67e5" :> "67e5"
MCNumberOf == "007" :> "7" @@ "7" :> "7"
MCPathOf == "a/b" :> "a/b"
MCOutside == {"a/b"}
MCPlain == [disks |-> {"a"}, cpu |-> "other"]
MCMachines == {MCPlain, [disks |-> {"a", "b"}, cpu |-> "max"]}
MCWanted == [id \in MCIds |-> IF id.kind = "u64" THEN MCMachines ELSE {MCPlain}]
=============================================================================
