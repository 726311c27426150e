----------------------------- MODULE MCTopology -----------------------------
(* Every combination of the toggles that change an operand.                 *)
EXTENDS Topology

MCEmptySpec ==
    [ version |-> "", gitleaks |-> "nil", collectionHealth |-> "nil",
      depAudit |-> "nil", ui |-> "nil", networkPolicy |-> "nil",
      route |-> "nil", routeHost |-> "", ingress |-> FALSE,
      ingressHost |-> "", galaxyCA |-> "", connectionSecret |-> "",
      postgresTLS |-> "", abbenay |-> FALSE, abbenayToken |-> "",
      abbenayConfig |-> "", abbenayPersist |-> "nil", plugins |-> << >> ]

PluginOf(name, port, config) == [name |-> name, port |-> port, config |-> config]

MCChoices ==
    [ gitleaks         |-> {"nil", "false"},
      collectionHealth |-> {"nil", "false"},
      depAudit         |-> {"nil", "false"},
      ui               |-> {"nil", "false"},
      networkPolicy    |-> {"nil", "false"},
      ingress          |-> {TRUE, FALSE},
      galaxyCA         |-> {"", "galaxy-ca"},
      connectionSecret |-> {"", "user-db"},
      postgresTLS      |-> {"", "user-tls"},
      abbenay          |-> {TRUE, FALSE},
      abbenayToken     |-> {"", "user-token"},
      abbenayConfig    |-> {"", "user-config"},
      abbenayPersist   |-> {"nil", "false"},
      plugins          |-> {<< >>,
                            <<PluginOf(2, 50100, "rules"), PluginOf(1, 0, "")>>} ]
=============================================================================
