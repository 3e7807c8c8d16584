--------------------------- MODULE MCQemuStorage ---------------------------
(* Two tasks over one data directory, for three configurations: a disk and *)
(* a cloud overlay whose names come out as one file, a raw disk and an ISO *)
(* whose names clash, and entries without a file.                          *)
EXTENDS QemuStorage, TLC

Drive(kind, id, path) == [kind |-> kind, id |-> id, path |-> path]

MCClean == ("a b" :> "a_b") @@ [part \in {"a_b", "c", "img"} |-> part]
MCConfs == {
    <<Drive("qcow2", <<"a b">>, <<>>), Drive("raw", <<"c">>, <<>>)>>,
    <<Drive("cloud", <<>>, <<"a_b", "img">>), Drive("iso", <<>>, <<"c", "img">>)>>,
    <<Drive("block", <<"a b">>, <<>>), Drive("isocloud", <<>>, <<>>)>>}
Symmetry == Permutations(Callers)
=============================================================================
