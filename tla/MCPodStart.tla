----------------------------- MODULE MCPodStart -----------------------------
(* The toggles that change what the init containers do.                     *)
EXTENDS PodStart

MCFirstSpec ==
    [ version |-> "", gitleaks |-> "nil", collectionHealth |-> "nil",
      depAudit |-> "nil", ui |-> "false", networkPolicy |-> "nil",
      route |-> "nil", routeHost |-> "", ingress |-> FALSE,
      ingressHost |-> "", galaxyCA |-> "", connectionSecret |-> "user-db",
      postgresTLS |-> "", abbenay |-> TRUE, abbenayToken |-> "",
      abbenayConfig |-> "", abbenayPersist |-> "nil", plugins |-> << >> ]

MCChoices ==
    [ ui               |-> {"nil", "false"},
      galaxyCA         |-> {"", "galaxy-ca"},
      connectionSecret |-> {"", "user-db"},
      abbenay          |-> {TRUE, FALSE},
      abbenayConfig    |-> {"", "user-config"},
      abbenayPersist   |-> {"nil", "false"} ]
=============================================================================
