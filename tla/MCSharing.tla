------------------------------ MODULE MCSharing ------------------------------
(* Instances of Sharing for TLC.                                             *)
EXTENDS Sharing, TLC

CONSTANTS ann, bob, eve, checking, wallet, home

Owners == (checking :> ann) @@ (wallet :> bob) @@ (home :> ann)

\* Three users share an account, then a budget, with nothing in between; two
\* plan savings in a budget, then share an account, while requests overtake
\* each other.
Explored ==
    {[overlap |-> FALSE, people |-> {ann, bob, eve}, on |-> {checking},
      roles |-> {"guest", "admin"}, codes |-> {"c1"}, plans |-> FALSE],
     [overlap |-> FALSE, people |-> {ann, bob, eve}, on |-> {home},
      roles |-> {"user", "admin"}, codes |-> {"c1"}, plans |-> FALSE],
     [overlap |-> TRUE, people |-> {ann, bob}, on |-> {home},
      roles |-> {"guest", "user", "admin"}, codes |-> {}, plans |-> TRUE],
     [overlap |-> TRUE, people |-> {ann, bob}, on |-> {checking},
      roles |-> {"guest", "admin"}, codes |-> {"c1", "c2"}, plans |-> FALSE]}
==============================================================================
