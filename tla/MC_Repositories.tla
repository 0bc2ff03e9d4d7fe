-------------------------- MODULE MC_Repositories --------------------------
(***************************************************************************)
(* Three repositories in one run: one where the owner commits, merges,     *)
(* undoes and collects garbage while a peer pushes; one with the           *)
(* workspaces of a session of agents; and those that the forge creates,    *)
(* serves, maintains and deletes.  They share no state: one is picked      *)
(* (focus) and it alone moves.                                             *)
(***************************************************************************)
EXTENDS MC_LocalRepo, Workspaces, ForgeLifecycle

CONSTANTS s1, s2, s3, s4, dev

VARIABLE focus

\* Snapshots of the first are interchangeable: they are made in this order.
MadeInOrder ==
    /\ anc'[s2] # {} => anc'[s1] # {}
    /\ anc'[s3] # {} => anc'[s2] # {}
    /\ anc'[s4] # {} => anc'[s3] # {}

\* The owner starts on a repository just initialised, or on one with two branches
\* that have forked.
RepositoriesInit ==
    /\ Init \/ Forked(s1, s2, s3, dev)
    /\ WsInit /\ LifeInit
    /\ focus \in {"owner", "agents", "forge"}
    /\ focus # "owner" => Init

RepositoriesNext ==
    /\ \/ focus = "owner" /\ Next /\ MadeInOrder /\ UNCHANGED <<wsVars, lifeVars>>
       \/ focus = "agents" /\ WsNext /\ UNCHANGED <<vars, lifeVars>>
       \/ focus = "forge" /\ LifeNext /\ UNCHANGED <<vars, wsVars>>
    /\ UNCHANGED focus

RepositoriesSpec ==
    RepositoriesInit /\ [][RepositoriesNext]_<<vars, wsVars, lifeVars, focus>>

\* The type invariants of the three.
RepositoriesTypeOK == LocalTypeOK /\ WsTypeOK /\ LifeTypeOK

\* Files of the second are interchangeable.
FileSymmetry == Permutations(Path)
=============================================================================
