--------------------------- MODULE MCCredentials ---------------------------
(* An installation with every generated credential.                         *)
EXTENDS Credentials

MCInstallation ==
    [ version |-> "", gitleaks |-> "false", collectionHealth |-> "false",
      depAudit |-> "false", ui |-> "false", networkPolicy |-> "nil",
      route |-> "nil", routeHost |-> "", ingress |-> FALSE,
      ingressHost |-> "", galaxyCA |-> "", connectionSecret |-> "",
      postgresTLS |-> "", abbenay |-> TRUE, abbenayToken |-> "",
      abbenayConfig |-> "", abbenayPersist |-> "nil", plugins |-> << >> ]
=============================================================================
