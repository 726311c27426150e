---------------------------- MODULE MCReconcile ----------------------------
(* Specs and bounds for the model checking of Reconcile.                    *)
EXTENDS ReconcilePromise

\* An empty spec: managed Postgres, UI and NetworkPolicy on, no Abbenay.
Default ==
    [ version |-> "", gitleaks |-> "nil", collectionHealth |-> "nil",
      depAudit |-> "nil", ui |-> "nil", networkPolicy |-> "nil",
      route |-> "nil", routeHost |-> "", ingress |-> FALSE,
      ingressHost |-> "", galaxyCA |-> "", connectionSecret |-> "",
      postgresTLS |-> "", abbenay |-> FALSE, abbenayToken |-> "",
      abbenayConfig |-> "", abbenayPersist |-> "nil", plugins |-> << >> ]

\* As few operands as a spec can ask for.
Minimal ==
    [Default EXCEPT !.connectionSecret = "user-db", !.ui = "false",
                    !.networkPolicy = "false"]

\* Every operand the operator can create on a cluster without Routes.
Everything ==
    [Default EXCEPT !.abbenay = TRUE, !.ingress = TRUE,
                    !.ingressHost = "apme.example"]

\* Managed Postgres and as few other operands as that allows.
Lean == [Default EXCEPT !.version = "1", !.ui = "false", !.networkPolicy = "false"]

\* The user brings everything a user can bring to a managed Postgres.
BringYourOwn ==
    [Default EXCEPT !.postgresTLS = "user-tls", !.galaxyCA = "galaxy-ca",
                    !.abbenay = TRUE, !.abbenayToken = "user-token",
                    !.abbenayConfig = "user-config",
                    !.abbenayPersist = "false", !.ui = "false"]

MCContent == [ default |-> Default, minimal |-> Minimal, lean |-> Lean,
               everything |-> Everything, byo |-> BringYourOwn ]

=============================================================================
