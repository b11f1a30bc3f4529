----------------------------- MODULE MCResMgmt -----------------------------
(***************************************************************************)
(* ResMgmt with three peers, two of them of the client's own MSP, and one  *)
(* request of every kind, with the options that change what it does.       *)
(***************************************************************************)
EXTENDS ResMgmt

MCRequests ==
  {Plainly(op) : op \in {"join", "save", "queryConfig"} \cup Installs \cup Deploys
                        \cup Lifecycles \cup Collects \cup SingleQueries \cup ChannelQueries}
  \cup {[Plainly(op) EXCEPT !.retry = TRUE] : op \in {"join", "install", "save"}}
  \cup {[Plainly(op) EXCEPT !.filter = {"p2", "p3"}] : op \in {"join", "install"}}
  \cup {[Plainly(op) EXCEPT !.targets = {"p1"}, !.retry = TRUE] : op \in SingleQueries}
  \cup {[Plainly("instantiate") EXCEPT !.targets = {"p1", "p3"}]}
  \cup {[Plainly("instantiate") EXCEPT !.targets = {"p1"}, !.filter = {"p1"}],
        [Plainly("approve") EXCEPT !.complete = FALSE]}
  \cup {[Plainly("commit") EXCEPT !.policy = p] : p \in {"signature", "both"}}
  \cup {[Plainly("save") EXCEPT !.signers = s] : s \in {{"nil"}, {"nil", "admin"}}}
  \cup {[Plainly("save") EXCEPT !.signatures = {"admin"}],
        [Plainly("save") EXCEPT !.config = "other"]}

=============================================================================
