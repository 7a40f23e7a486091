---------------------------- MODULE MCController ----------------------------
(***************************************************************************)
(* Controller on every inventory of at most MaxRepos repositories: the     *)
(* empty one, those that fill their last shard and those that do not.      *)
(***************************************************************************)
EXTENDS Controller
=============================================================================
