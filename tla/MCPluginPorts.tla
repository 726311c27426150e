--------------------------- MODULE MCPluginPorts ---------------------------
(* Every list of up to four plugins over three ports.                       *)
EXTENDS PluginPorts

Plugins == [name : 1 .. 4, port : {0} \cup (pluginPortMin .. pluginPortMax),
            config : {""}]

MCInputs ==
    {list \in UNION {[1 .. n -> Plugins] : n \in 0 .. 4} :
        \A i, j \in DOMAIN list :
            i # j => /\ list[i].name # list[j].name
                     /\ list[i].port = list[j].port => list[i].port = 0}
=============================================================================
