--------------------------- MODULE MCModuleGraph ---------------------------
(* Instance of ModuleGraph: the entry 1, modules 2 and 3 on disk and the   *)
(* intrinsic 4.  The entry imports any set of names; each of 2 and 3 is    *)
(* missing, unparsable, a Win32 def or a DEF/IMPL pair with every set of   *)
(* imports, so every cycle over three modules occurs; 3 may be an extra    *)
(* root that nothing imports.                                              *)
EXTENDS ModuleGraph

MCName == 1..4
MCIntrinsic == {4}
MCExtraRoots == {<< >>, <<3>>}

EntrySource ==
    [where : {"bad"}, def : {{}}, impl : {{}}]
    \cup [where : {"path"}, def : {{}}, impl : SUBSET (1..4)]

LibSource(defs) ==
    [where : {"missing", "bad"}, def : {{}}, impl : {{}}]
    \cup [where : {"finder"}, def : {{}, {1}, {2, 3}}, impl : {{}}]
    \cup [where : {"path"}, def : defs, impl : SUBSET (1..4)]

MCDisk ==
    {<<e, m, n, [where |-> "missing", def |-> {}, impl |-> {}]>> :
        e \in EntrySource, m \in LibSource({{}, {3}}), n \in LibSource({{}, {2}})}
=============================================================================
