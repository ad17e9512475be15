-------------------------- MODULE MCDecryptSources --------------------------
(***************************************************************************)
(* Artifacts of three directories and two files for TLC: bases that are    *)
(* shared, nested, cyclic, dangling or broken, and files referred to once, *)
(* twice, or in two formats.                                               *)
(***************************************************************************)
EXTENDS DecryptSources

MCSameMarker == {<<"json", "binary">>, <<"binary", "json">>}

Ref(f, format) == [file |-> f, format |-> format]

Kus(refs, resources, components) ==
    {[refs |-> r, resources |-> s, components |-> c] :
        r \in refs, s \in resources, c \in components}

\* The files of the three directories: d1 is the top, d2 and d3 are bases.
MCTop ==
    Kus({<<>>, <<Ref("f1", "yaml")>>},
        {<<"d2">>, <<"d2", "d3">>, <<"nowhere", "d3", "d2">>},
        {<<>>, <<"d3">>})

MCBase ==
    Kus({<<Ref("f1", "yaml")>>, <<Ref("f2", "json"), Ref("f1", "yaml")>>},
        {<<>>, <<"d3">>, <<"f2", "d1">>}, {<<>>, <<"d3">>})

MCLeaf ==
    Kus({<<>>, <<Ref("f2", "binary")>>, <<Ref("f2", "json")>>, <<Ref("nowhere", "yaml")>>},
        {<<>>, <<"d2">>, <<"d1", "d3">>}, {<<>>})

MCTrees ==
    {[kustomization |-> [d \in Dirs |-> CASE d = "d1" -> k1 [] d = "d2" -> k2
                                          [] OTHER -> k3],
      broken |-> broken,
      content |-> [f \in Files |-> IF f = "f1" THEN c1 ELSE c2]] :
        k1 \in MCTop, k2 \in MCBase, k3 \in MCLeaf, broken \in {{}, {"d3"}},
        c1 \in {"plain", "yaml"}, c2 \in {"json", "irregular"}}
=============================================================================
