-------------------------- MODULE MCCompileAndRun ---------------------------
(* Three modules, each importing any of the others, with 2 or 3 possibly   *)
(* missing, the intrinsic 4 imported by the entry, and 3 possibly forced   *)
(* in as an extra root.  With an i32 of 1024 values, HALT(1280) becomes    *)
(* 256 in nm2_halt and 0 in `as u8'.                                       *)
EXTENDS CompileAndRun

MCName == 1..4
MCIntrinsic == {4}
MCExtraRoots == {<< >>, <<3>>}
MCHaltCode == {0, 1, 1280}

Source(n) ==
    [where : {"path"}, def : {{}}, impl : SUBSET ((1..3) \ {n})]

Missing == [where |-> "missing", def |-> {}, impl |-> {}]

MCDisk ==
    {<<[e EXCEPT !.impl = @ \cup {4}], m, n, Missing>> :
        e \in Source(1), m \in Source(2), n \in Source(3) \cup {Missing}}
=============================================================================
