------------------------------ MODULE MCRoutes ------------------------------
(* Specs for the model checking of Routes.                                  *)
EXTENDS Routes

Plain ==
    [ version |-> "", gitleaks |-> "nil", collectionHealth |-> "nil",
      depAudit |-> "nil", ui |-> "nil", networkPolicy |-> "nil",
      route |-> "nil", routeHost |-> "", ingress |-> FALSE,
      ingressHost |-> "", galaxyCA |-> "", connectionSecret |-> "",
      postgresTLS |-> "", abbenay |-> FALSE, abbenayToken |-> "",
      abbenayConfig |-> "", abbenayPersist |-> "nil", plugins |-> << >> ]

MCContent ==
    [ plain  |-> Plain,
      hosted |-> [Plain EXCEPT !.routeHost = "two.example"],
      noui   |-> [Plain EXCEPT !.routeHost = "one.example", !.ui = "false"],
      off    |-> [Plain EXCEPT !.route = "false"] ]
=============================================================================
